---- MODULE Spec2Model ----
(***************************************************************************)
(* A model of RedSVD.h (header-only randomized SVD / symmetric eigen).     *)
(*                                                                         *)
(* Scalars.  The code is generic in its Scalar type.  The model computes   *)
(* with exact numbers of the form  e * n / (d * sqrt(rad))  (e an integer, *)
(* n, d, rad positive integers): every quantity gram_schmidt produces from *)
(* a matrix of such numbers is again of this form, so orthonormality and   *)
(* the norm < EPS test are decided exactly.  A matrix keeps the integers e *)
(* entry by entry and the factor n / (d * sqrt(rad)) per row and per       *)
(* column.  Indices are 1-based here and 0-based in the code.              *)
(***************************************************************************)
EXTENDS Integers, Sequences, FiniteSets, TLC

VARIABLES
    object,         \* the class of the engine object: "RedSVD" | "RedSymEigen"
    given,          \* the matrix the caller decomposes with this object
    m_matrixU,      \* RedSVD::m_matrixU
    m_vectorS,      \* RedSVD::m_vectorS
    m_matrixV,      \* RedSVD::m_matrixV
    m_eigenvalues,  \* RedSymEigen::m_eigenvalues
    m_eigenvectors, \* RedSymEigen::m_eigenvectors
    last,           \* the last member call: [op, A, rank, seed, wrote, status, draws]
    frame,          \* the locals of the last call when it returned
    randState,  \* std::rand: the process-wide generator's state
    sgMat,      \* sample_gaussian(mat): mat, filled in place
    sgI,        \* sample_gaussian(mat): the row i (1-based)
    sgJ,        \* sample_gaussian(mat): the column j of the inner loop (1-based)
    sgPc,       \* sample_gaussian(mat): "idle" | "pairs" | "odd" | "done"
    sgDraws,    \* the values std::rand returned to this call, in order
    gsIn,       \* gram_schmidt: the matrix it was called with
    gsMat,      \* gram_schmidt: mat, mutated in place
    gsI,        \* gram_schmidt: the outer loop index i (1-based)
    gsPc        \* gram_schmidt: "loop" | "done" (returned)

gsVars == <<gsIn, gsMat, gsI, gsPc>>

sgVars == <<sgMat, sgI, sgJ, sgPc, sgDraws>>

objVars == <<object, given, m_matrixU, m_vectorS, m_matrixV, m_eigenvalues, m_eigenvectors,
            last, frame>>

vars == <<object, given, m_matrixU, m_vectorS, m_matrixV, m_eigenvalues, m_eigenvectors,
          last, frame, randState, sgMat, sgI, sgJ, sgPc, sgDraws,
          gsIn, gsMat, gsI, gsPc>>

-----------------------------------------------------------------------------
(* Integer helpers *)

Abs(x) == IF x < 0 THEN -x ELSE x

Sign(x) == IF x < 0 THEN -1 ELSE IF x = 0 THEN 0 ELSE 1

Min(a, b) == IF a < b THEN a ELSE b

\* the element of a one-element set: {F(x) : x \in {e}} computes e once
Only(S) == CHOOSE x \in S : TRUE

\* F of the value v, v computed once (a local of the code)
With(v, F(_)) == Only({F(x) : x \in {v}})

RECURSIVE Gcd(_, _)
Gcd(a, b) == IF b = 0 THEN a ELSE Gcd(b, a % b)

RECURSIVE ISqrtIn(_, _, _)
\* the floor of sqrt(x), found by bisection in lo..hi (lo*lo <= x < (hi+1)^2)
ISqrtIn(x, lo, hi) ==
    IF lo >= hi THEN lo
    ELSE LET mid == (lo + hi + 1) \div 2
         IN  IF mid * mid <= x THEN ISqrtIn(x, mid, hi) ELSE ISqrtIn(x, lo, mid - 1)

ISqrt(x) == ISqrtIn(x, 0, Min(x, 46340))

RECURSIVE SumTo(_, _)
\* f[1] + ... + f[n]
SumTo(f, n) == IF n = 0 THEN 0 ELSE SumTo(f, n - 1) + f[n]

RECURSIVE GcdTo(_, _)
\* gcd(|f[1]|, ..., |f[n]|), 0 for the zero vector
GcdTo(f, n) == IF n = 0 THEN 0 ELSE Gcd(GcdTo(f, n - 1), Abs(f[n]))

-----------------------------------------------------------------------------
(* Scalars and dense matrices *)

\* the factor n / (d * sqrt(rad))
Scale(n, d, rad) == [n |-> n, d |-> d, rad |-> rad]

One == Scale(1, 1, 1)

ScaleReduce(s) ==
    LET g == Gcd(s.n, s.d) IN Scale(s.n \div g, s.d \div g, s.rad)

ScaleMul(s, t) == ScaleReduce(Scale(s.n * t.n, s.d * t.d, s.rad * t.rad))

\* Eigen::Matrix<Scalar, Dynamic, Dynamic>: entry (i, j) is
\* e[i][j] * rs[i] * cs[j]
DenseMatrix(rows, cols, e, rs, cs) ==
    [rows |-> rows, cols |-> cols, e |-> e, rs |-> rs, cs |-> cs]

\* a matrix of integers
IntMatrix(rows, cols, e) ==
    DenseMatrix(rows, cols, e, [i \in 1..rows |-> One], [j \in 1..cols |-> One])

Col(mat, j) == [i \in 1..mat.rows |-> mat.e[i][j]]

Dot(u, v, len) == SumTo([k \in 1..len |-> u[k] * v[k]], len)

Transpose(mat) ==
    DenseMatrix(mat.cols, mat.rows,
                [j \in 1..mat.cols |-> [i \in 1..mat.rows |-> mat.e[i][j]]],
                mat.cs, mat.rs)

\* The digits a stored Scalar keeps where the exact form above cannot hold a
\* result (a sum of terms with different radicands): 1/SC.
SC == 2

\* mat with every entry rounded towards zero to a multiple of 1/SC
StoreEntry(v, r) ==
    Only({ Sign(v) * ISqrt((num * num) \div (r.d * r.d * r.rad)) :
           num \in {Abs(v) * r.n * SC} })

Store(mat) ==
    Only({ DenseMatrix(m.rows, m.cols,
                       [i \in 1..m.rows |-> [j \in 1..m.cols |->
                          StoreEntry(m.e[i][j], ScaleMul(m.rs[i], m.cs[j]))]],
                       [i \in 1..m.rows |-> One],
                       [j \in 1..m.cols |-> Scale(1, SC, 1)]) :
           m \in {mat} })

ZeroCol(mat, j) == \A i \in 1..mat.rows : mat.e[i][j] = 0

ZeroRow(mat, i) == \A j \in 1..mat.cols : mat.e[i][j] = 0

\* the product of X and Y where every term of a sum has the factor common
MulExact(X, Y, live, common) ==
    DenseMatrix(X.rows, Y.cols,
                [i \in 1..X.rows |-> [j \in 1..Y.cols |->
                   SumTo([k \in 1..X.cols |->
                            IF k \in live THEN X.e[i][k] * Y.e[k][j] ELSE 0],
                         X.cols)]],
                X.rs,
                [j \in 1..Y.cols |-> ScaleMul(Y.cs[j], common)])

\* the columns of X and rows of Y that contribute to X * Y
Live(X, Y) == {k \in 1..X.cols : ~ZeroCol(X, k) /\ ~ZeroRow(Y, k)}

MulLive(X, Y, live) ==
    MulExact(X, Y, live,
             IF live = {} THEN One
             ELSE Only({ScaleMul(X.cs[k], Y.rs[k]) : k \in {CHOOSE k \in live : TRUE}}))

\* Eigen's product X * Y (X.cols = Y.rows).  Exact when the terms of each sum
\* share one factor; otherwise the operands are taken as stored.
Mul(X, Y) ==
    Only({ Only({ IF \A k, l \in live : ScaleMul(x.cs[k], y.rs[k]) = ScaleMul(x.cs[l], y.rs[l])
                  THEN MulLive(x, y, live)
                  ELSE Only({ MulLive(xx, yy, Live(xx, yy)) :
                              xx \in {Store(x)}, yy \in {Store(y)} }) :
                  live \in {Live(x, y)} }) :
           x \in {X}, y \in {Y} })

-----------------------------------------------------------------------------
(* sample_gaussian (lines 38-67) *)

\* RAND_MAX of <cstdlib> (lines 48-49), kept small
RAND_MAX == 4

\* std::rand(): the value returned and the state left
Rand(s) == [val |-> s, next |-> (s + 1) % (RAND_MAX + 1)]

RoundDiv(a, b) == Sign(a) * ((Abs(a) + b \div 2) \div b)

\* 1000 * log(1 / v) for v = k / (RAND_MAX + 2), by the series
\* log((1 + z) / (1 - z)) = 2 (z + z^3/3 + z^5/5 + z^7/7 + z^9/9)
NegLog1000(k) ==
    LET N  == RAND_MAX + 2
        z  == (1000 * (N - k)) \div (N + k)
        z2 == (z * z) \div 1000
        z3 == (z * z2) \div 1000
        z5 == (z3 * z2) \div 1000
        z7 == (z5 * z2) \div 1000
        z9 == (z7 * z2) \div 1000
    IN  2 * (z + z3 \div 3 + z5 \div 5 + z7 \div 7 + z9 \div 9)

\* 1000 * sin(2 pi q / (4 (RAND_MAX + 2))), by Bhaskara's formula
\* sin(pi t) = 16 t (1 - t) / (5 - 4 t (1 - t)) on a half turn
SinQ1000(q) ==
    LET H == 2 * (RAND_MAX + 2)
        p == q % (2 * H)
        a == IF p < H THEN p ELSE p - H
        t == a * (H - a)
    IN  (IF p < H THEN 1 ELSE -1) * ((16000 * t) \div (5 * H * H - 4 * t))

Sin1000(k) == SinQ1000(4 * k)

Cos1000(k) == SinQ1000(4 * k + RAND_MAX + 2)

\* lines 48-52: the two samples of one pair, as multiples of 1/SC, and the
\* generator state left.  v1 = k1 / (RAND_MAX + 2), v2 = k2 / (RAND_MAX + 2)
BoxMuller(k1, k2) ==
    LET len == ISqrt(2 * NegLog1000(k1) * 1000)
    IN  [x |-> RoundDiv(SC * len * Cos1000(k2), 1000000),
         y |-> RoundDiv(SC * len * Sin1000(k2), 1000000)]

\* mat(i, j) = v
SetEntry(mat, i, j, v) == [mat EXCEPT !.e[i][j] = v]

\* a sampler that assigns y first and x last
sample_gaussian_yx(mat, i, jx, jy, s) ==
    LET d1 == Rand(s)
        d2 == Rand(d1.next)
    IN  With(BoxMuller(d1.val + 1, d2.val + 1), LAMBDA g :
             [mat   |-> SetEntry(SetEntry(mat, i, jy, g.y), i, jx, g.x),
              next  |-> d2.next,
              draws |-> <<d1.val, d2.val>>])

\* sample_gaussian(Scalar& x, Scalar& y) with x bound to mat(i, jx) and y to
\* mat(i, jy): line 51 assigns x, then line 52 assigns y
sample_gaussian_xy(mat, i, jx, jy, s) ==
    LET d1 == Rand(s)
        d2 == Rand(d1.next)
    IN  With(BoxMuller(d1.val + 1, d2.val + 1), LAMBDA g :
             [mat   |-> SetEntry(SetEntry(mat, i, jx, g.x), i, jy, g.y),
              next  |-> d2.next,
              draws |-> <<d1.val, d2.val>>])

\* c = [mat, next, draws] after one more sample_gaussian(x, y) call p
Sampled(c, p) ==
    [mat |-> p.mat, next |-> p.next, draws |-> c.draws \o p.draws]

RECURSIVE SGPairsFrom(_, _, _)
\* lines 62-63: for(j = 0; j+1 < mat.cols(); j += 2), from column j on
\* c = [mat, next, draws]
SGPairsFrom(c, i, j) ==
    IF j + 1 > c.mat.cols THEN c
    ELSE With(Sampled(c, sample_gaussian_xy(c.mat, i, j, j + 1, c.next)),
              LAMBDA d : SGPairsFrom(d, i, j + 2))

\* lines 64-65: if(mat.cols() % 2) sample_gaussian(mat(i, cols-1), mat(i, cols-1))
SGOdd(c, i) ==
    IF c.mat.cols % 2 = 1
    THEN Sampled(c, sample_gaussian_xy(c.mat, i, c.mat.cols, c.mat.cols, c.next))
    ELSE c

RECURSIVE SGRowsFrom(_, _)
\* lines 60-66: for(i = 0; i < mat.rows(); ++i), from row i on
SGRowsFrom(c, i) ==
    IF i > c.mat.rows THEN c
    ELSE With(SGPairsFrom(c, i, 1),
              LAMBDA d : With(SGOdd(d, i), LAMBDA e : SGRowsFrom(e, i + 1)))

\* DenseMatrix M(rows, cols): entries not yet set (read as 0), unit 1/SC
Uninitialized(rows, cols) ==
    DenseMatrix(rows, cols, [i \in 1..rows |-> [j \in 1..cols |-> 0]],
                [i \in 1..rows |-> One], [j \in 1..cols |-> Scale(1, SC, 1)])

\* sample_gaussian(MatrixType& mat) from generator state s: [mat, next, draws]
sample_gaussian(mat, s) ==
    With([mat |-> mat, next |-> s, draws |-> <<>>], LAMBDA c : SGRowsFrom(c, 1))

-----------------------------------------------------------------------------
(* gram_schmidt (lines 69-95) *)

\* static const Scalar EPS(1E-4): EPS = 1 / EPS_INV
EPS_INV == 10000

\* mat.col(i).norm() < EPS for the column w * sc, ww = w.w:
\* sqrt(ww) * n / (d * sqrt(rad)) < 1 / EPS_INV, decided without forming
\* the squares when integer bounds on the two roots already decide it
NormBelowEPS(ww, sc) ==
    IF ww = 0 THEN TRUE
    ELSE With(Gcd(EPS_INV * sc.n, sc.d), LAMBDA g :
         LET a == (EPS_INV * sc.n) \div g
             b == sc.d \div g
         IN  IF a * ISqrt(ww) >= b * (ISqrt(sc.rad) + 1) THEN FALSE
             ELSE IF a * (ISqrt(ww) + 1) <= b * ISqrt(sc.rad) THEN TRUE
             ELSE a * a * ww < b * b * sc.rad)

\* the column W * sc with the common divisor of W's entries moved into sc
Reduced(W, len, sc) ==
    Only({ IF g = 0 THEN [w |-> W, sc |-> sc]
           ELSE [w  |-> [k \in 1..len |-> W[k] \div g],
                 sc |-> ScaleReduce(Scale(sc.n * g, sc.d, sc.rad))] :
           g \in {GcdTo(W, len)} })

\* lines 81-82: r = col(i).dot(col(j)); col(i) -= r * col(j), for the column
\* c = [w, sc] standing for col(i).  col(j) is already normalized, that is
\* wj / sqrt(sj) with sj = wj.wj, so col(i) - r col(j) is
\* (sc / sj) * (sj w - (w.wj) wj).
Project(c, mat, j) ==
    Only({ Reduced([k \in 1..mat.rows |-> mat.cs[j].rad * c.w[k] - dot * wj[k]],
                   mat.rows,
                   Scale(c.sc.n, c.sc.d * mat.cs[j].rad, c.sc.rad)) :
           wj \in {Col(mat, j)}, dot \in {Dot(c.w, Col(mat, j), mat.rows)} })

RECURSIVE ProjectFrom(_, _, _, _)
\* lines 79-83: for(j = 0; j < i; ++j), from j on
ProjectFrom(c, mat, j, i) ==
    IF j >= i THEN c
    ELSE Only({ ProjectFrom(p, mat, j + 1, i) : p \in {Project(c, mat, j)} })

SetCol(mat, j, w, sc) ==
    [mat EXCEPT !.e  = [i \in 1..mat.rows |-> [mat.e[i] EXCEPT ![j] = w[i]]],
                !.cs = [mat.cs EXCEPT ![j] = sc]]

\* a collapse that zeroes column i alone
SetZeroAt(mat, i) ==
    [mat EXCEPT !.e  = [r \in 1..mat.rows |->
                          [k \in 1..mat.cols |-> IF k = i THEN 0 ELSE mat.e[r][k]]],
                !.cs = [k \in 1..mat.cols |-> IF k = i THEN One ELSE mat.cs[k]]]

\* lines 89-90: for(k = i; k < mat.cols(); ++k) mat.col(k).setZero()
SetZeroFrom(mat, i) ==
    [mat EXCEPT !.e  = [r \in 1..mat.rows |->
                          [k \in 1..mat.cols |-> IF k >= i THEN 0 ELSE mat.e[r][k]]],
                !.cs = [k \in 1..mat.cols |-> IF k >= i THEN One ELSE mat.cs[k]]]

\* a loop body that zeroes a column below EPS and goes on to the next one
NormalizeSkipping(mat, i, c) ==
    IF NormBelowEPS(Dot(c.w, c.w, mat.rows), c.sc)
    THEN [mat |-> SetZeroAt(mat, i), returned |-> FALSE]
    ELSE Only({ [mat |-> SetCol(mat, i, u.w, Scale(1, 1, Dot(u.w, u.w, mat.rows))),
                 returned |-> FALSE] :
                u \in {Reduced(c.w, mat.rows, One)} })

\* lines 85-93 for the projected column c = [w, sc] of column i
\* returned: the loop was left by the return of line 91.
Normalize(mat, i, c) ==
    IF NormBelowEPS(Dot(c.w, c.w, mat.rows), c.sc)
    THEN [mat |-> SetZeroFrom(mat, i), returned |-> TRUE]
    ELSE Only({ [mat |-> SetCol(mat, i, u.w, Scale(1, 1, Dot(u.w, u.w, mat.rows))),
                 returned |-> FALSE] :
                u \in {Reduced(c.w, mat.rows, One)} })

\* lines 79-93: one pass of the outer loop body, for column i
GSColumn(mat, i) ==
    Only({ Normalize(mat, i, c) :
           c \in {ProjectFrom([w |-> Col(mat, i), sc |-> mat.cs[i]], mat, 1, i)} })

RECURSIVE GSFrom(_, _)
\* lines 77-94: the outer loop from column i on
GSFrom(mat, i) ==
    IF i > mat.cols THEN mat
    ELSE Only({ IF s.returned THEN s.mat ELSE GSFrom(s.mat, i + 1) :
                s \in {GSColumn(mat, i)} })

\* column operations act on the rows' common factor: a matrix whose rows carry
\* factors is taken as stored
ColumnForm(mat) ==
    IF \A i \in 1..mat.rows : mat.rs[i] = One THEN mat ELSE Store(mat)

\* the number of columns of mat that are not zero
Survivors(mat) == Cardinality({j \in 1..mat.cols : ~ZeroCol(mat, j)})

\* an orthonormalization that resizes mat to the columns it normalized
gram_schmidt_resizing(mat) ==
    With(GSFrom(ColumnForm(mat), 1), LAMBDA m :
    With(Survivors(m), LAMBDA k :
        DenseMatrix(m.rows, k,
                    [i \in 1..m.rows |-> [j \in 1..k |-> m.e[i][j]]],
                    m.rs, [j \in 1..k |-> m.cs[j]])))

gram_schmidt(mat) == Only({ GSFrom(m, 1) : m \in {ColumnForm(mat)} })

-----------------------------------------------------------------------------
(* The exact solvers of Eigen (not part of the header): their results are
   kept as terms over the matrix they were given, with the shapes Eigen
   documents. *)

\* a dense result held as a term: rows x cols, val the term
Term(rows, cols, val) == [rows |-> rows, cols |-> cols, val |-> val]

\* a default-constructed DenseMatrix / ScalarVector
Empty == Term(0, 0, "empty")

\* Eigen::BDCSVD<DenseMatrix>(C, ComputeThinU | ComputeThinV)
BDCSVD(C) ==
    LET k == Min(C.rows, C.cols)
    IN  [matrixU        |-> Term(C.rows, k, <<"BDCSVD.matrixU", C>>),
         singularValues |-> Term(k, 1, <<"BDCSVD.singularValues", C>>),
         matrixV        |-> Term(C.cols, k, <<"BDCSVD.matrixV", C>>)]

\* Eigen::SelfAdjointEigenSolver<DenseMatrix>(B)
SelfAdjointEigenSolver(B) ==
    [eigenvalues  |-> Term(B.rows, 1, <<"SelfAdjointEigenSolver.eigenvalues", B>>),
     eigenvectors |-> Term(B.rows, B.cols,
                           <<"SelfAdjointEigenSolver.eigenvectors", B>>)]

\* the product X * t of a matrix and a solver result
MulTerm(X, t) == Term(X.rows, t.cols, <<"*", X, t>>)

-----------------------------------------------------------------------------
(* RedSVD (lines 97-208) *)

\* a clamp that forgets line 174 (the rows)
ClampRankToCols(A, rank) == IF rank < A.cols THEN rank ELSE A.cols

\* lines 172-174 and 238-240: the clamped rank r
ClampRank(A, rank) ==
    LET r == IF rank < A.cols THEN rank ELSE A.cols
    IN  IF r < A.rows THEN r ELSE A.rows

\* a compute_svd that draws P before O
compute_svd_P_first(A, rank, s) ==
    With(ClampRank(A, rank), LAMBDA r :
    With(sample_gaussian(Uninitialized(r, r), s), LAMBDA sP :
    With(sample_gaussian(Uninitialized(A.rows, r), sP.next), LAMBDA sO :
    With(Mul(Transpose(A), sO.mat), LAMBDA Y0 :
    With(gram_schmidt(Y0), LAMBDA Y :
    With(Mul(A, Y), LAMBDA B :
    With(Mul(B, sP.mat), LAMBDA Z0 :
    With(gram_schmidt(Z0), LAMBDA Z :
    With(Mul(Transpose(Z), B), LAMBDA C :
        [kind |-> "svd",
         r |-> r, O |-> sO.mat, Y0 |-> Y0, Y |-> Y, B |-> B, P |-> sP.mat,
         Z0 |-> Z0, Z |-> Z, C |-> C, svdOfC |-> BDCSVD(C),
         drawsO |-> sO.draws, drawsP |-> sP.draws, next |-> sO.next])))))))))

\* lines 167-207: compute_svd(A, rank, Z, Y) from generator state s: its
\* locals at the return of line 205, the state of std::rand and the values
\* std::rand returned
compute_svd(A, rank, s) ==
    With(ClampRank(A, rank), LAMBDA r :
    With(sample_gaussian(Uninitialized(A.rows, r), s), LAMBDA sO :  \* 177-178
    With(Mul(Transpose(A), sO.mat), LAMBDA Y0 :                     \* 181
    With(gram_schmidt(Y0), LAMBDA Y :                               \* 184
    With(Mul(A, Y), LAMBDA B :                                      \* 187
    With(sample_gaussian(Uninitialized(B.cols, r), sO.next), LAMBDA sP : \* 190-191
    With(Mul(B, sP.mat), LAMBDA Z0 :                                \* 194
    With(gram_schmidt(Z0), LAMBDA Z :                               \* 197
    With(Mul(Transpose(Z), B), LAMBDA C :                           \* 200
        [kind |-> "svd",
         r |-> r, O |-> sO.mat, Y0 |-> Y0, Y |-> Y, B |-> B, P |-> sP.mat,
         Z0 |-> Z0, Z |-> Z, C |-> C, svdOfC |-> BDCSVD(C),         \* 204
         drawsO |-> sO.draws, drawsP |-> sP.draws, next |-> sP.next])))))))))

\* What a member call leaves: the members it assigned (assign), the locals
\* it returned with (frame), the generator state (next), the values std::rand
\* returned (draws), and whether the call is one the compiler accepts.
Outcome(assign, f, next, draws, status) ==
    [assign |-> assign, frame |-> f, next |-> next, draws |-> draws,
     status |-> status]

\* a compute that stores U only into an instance that holds none
RedSVD_compute_keeping(self, A, rank, s) ==
    With(compute_svd(A, rank, s), LAMBDA f :
        Outcome(IF self.m_matrixU = Empty
                THEN [m_matrixU |-> MulTerm(f.Z, f.svdOfC.matrixU),
                      m_vectorS |-> f.svdOfC.singularValues,
                      m_matrixV |-> MulTerm(f.Y, f.svdOfC.matrixV)]
                ELSE [m_vectorS |-> f.svdOfC.singularValues,
                      m_matrixV |-> MulTerm(f.Y, f.svdOfC.matrixV)],
                f, f.next, f.drawsO \o f.drawsP, "ok"))

\* lines 120-128
RedSVD_compute(self, A, rank, s) ==
    With(compute_svd(A, rank, s), LAMBDA f :
        Outcome([m_matrixU |-> MulTerm(f.Z, f.svdOfC.matrixU),
                     m_vectorS |-> f.svdOfC.singularValues,
                     m_matrixV |-> MulTerm(f.Y, f.svdOfC.matrixV)],
                    f, f.next, f.drawsO \o f.drawsP, "ok"))

\* lines 130-137
RedSVD_compute_V(self, A, rank, s) ==
    With(compute_svd(A, rank, s), LAMBDA f :
        Outcome([m_vectorS |-> f.svdOfC.singularValues,
                     m_matrixV |-> MulTerm(f.Y, f.svdOfC.matrixV)],
                    f, f.next, f.drawsO \o f.drawsP, "ok"))

\* a compute_U that also stores V
RedSVD_compute_U_storing_V(self, A, rank, s) ==
    With(compute_svd(A, rank, s), LAMBDA f :
        Outcome([m_vectorS |-> f.svdOfC.singularValues,
                 m_matrixU |-> MulTerm(f.Z, f.svdOfC.matrixU),
                 m_matrixV |-> MulTerm(f.Y, f.svdOfC.matrixV)],
                f, f.next, f.drawsO \o f.drawsP, "ok"))

\* lines 139-146
RedSVD_compute_U(self, A, rank, s) ==
    With(compute_svd(A, rank, s), LAMBDA f :
        Outcome([m_vectorS |-> f.svdOfC.singularValues,
                     m_matrixU |-> MulTerm(f.Z, f.svdOfC.matrixU)],
                    f, f.next, f.drawsO \o f.drawsP, "ok"))

NoFrame == [kind |-> "none"]

\* lines 148-154: line 150 calls compute_svd(A, rank), and the only
\* compute_svd (line 167) takes four arguments, none defaulted: the member
\* cannot be instantiated, so no call of it ever runs or stores anything
RedSVD_compute_singularValues(self, A, rank, s) ==
    Outcome(<<>>, NoFrame, s, <<>>, "ill_formed")

-----------------------------------------------------------------------------
(* RedSymEigen (lines 210-272) *)

\* lines 233-257
RedSymEigen_compute(self, A, rank, s) ==
    IF A.cols = 0 \/ A.rows = 0                                     \* 235-236
    THEN Outcome(<<>>, [kind |-> "returned_early"], s, <<>>, "ok")
    ELSE With(ClampRank(A, rank), LAMBDA r :
         With(sample_gaussian(Uninitialized(A.rows, r), s), LAMBDA sO : \* 243-244
         With(Mul(Transpose(A), sO.mat), LAMBDA Y0 :                \* 247
         With(gram_schmidt(Y0), LAMBDA Y :                          \* 250
         With(Mul(Mul(Transpose(Y), A), Y), LAMBDA B :              \* 252
         With(SelfAdjointEigenSolver(B), LAMBDA eigenOfB :          \* 253
             Outcome([m_eigenvalues  |-> eigenOfB.eigenvalues,
                      m_eigenvectors |-> MulTerm(Y, eigenOfB.eigenvectors)],
                     [kind |-> "eigen", r |-> r, O |-> sO.mat, Y0 |-> Y0,
                      Y |-> Y, B |-> B],
                     sO.next, sO.draws, "ok")))))))

-----------------------------------------------------------------------------
(* The member calls of one engine object *)

MaxDim == 2

MaxRank == 2

\* the matrices handed to the engines: all 0, all 1, or 1 on the diagonal
Input(kind, m, n) ==
    IntMatrix(m, n, [i \in 1..m |-> [j \in 1..n |->
        IF kind = "zero" THEN 0
        ELSE IF kind = "ones" THEN 1
        ELSE IF i = j THEN 1 ELSE 0]])

Kinds == {"zero", "ones", "eye"}

NoCall == [op |-> "none", A |-> IntMatrix(0, 0, <<>>), rank |-> 0, seed |-> 0,
           wrote |-> {}, status |-> "ok", draws |-> <<>>]

\* RedSVD() {} (line 107), RedSymEigen() {} (line 220)
Constructed(class) ==
    /\ object = class
    /\ m_matrixU = Empty
    /\ m_vectorS = Empty
    /\ m_matrixV = Empty
    /\ m_eigenvalues = Empty
    /\ m_eigenvectors = Empty
    /\ last = NoCall
    /\ frame = NoFrame

\* *this
Self ==
    [m_matrixU |-> m_matrixU, m_vectorS |-> m_vectorS, m_matrixV |-> m_matrixV,
     m_eigenvalues |-> m_eigenvalues, m_eigenvectors |-> m_eigenvectors]

\* a call that clears every member it does not assign
AssignedOrCleared(out, member, old) ==
    IF member \in DOMAIN out.assign THEN out.assign[member] ELSE Empty

\* the member after the call: assigned by it, or as it was
Assigned(out, member, old) ==
    IF member \in DOMAIN out.assign THEN out.assign[member] ELSE old

\* the call op(A, rank) returned with outcome out
Returned(op, A, rank, out) ==
    /\ m_matrixU' = Assigned(out, "m_matrixU", m_matrixU)
    /\ m_vectorS' = Assigned(out, "m_vectorS", m_vectorS)
    /\ m_matrixV' = Assigned(out, "m_matrixV", m_matrixV)
    /\ m_eigenvalues' = Assigned(out, "m_eigenvalues", m_eigenvalues)
    /\ m_eigenvectors' = Assigned(out, "m_eigenvectors", m_eigenvectors)
    /\ randState' = out.next
    /\ frame' = out.frame
    /\ last' = [op |-> op, A |-> A, rank |-> rank, seed |-> randState,
                wrote |-> DOMAIN out.assign, status |-> out.status,
                draws |-> out.draws]
    /\ UNCHANGED <<object, given>>

\* RedSVD::compute(given, rank)
compute ==
    /\ object = "RedSVD"
    /\ last.status = "ok"
    /\ \E rank \in 1..MaxRank :
         \E out \in {RedSVD_compute(Self, given, rank, randState)} :
           Returned("compute", given, rank, out)

\* RedSVD::compute_V(given, rank)
compute_V ==
    /\ object = "RedSVD"
    /\ last.status = "ok"
    /\ \E rank \in 1..MaxRank :
         \E out \in {RedSVD_compute_V(Self, given, rank, randState)} :
           Returned("compute_V", given, rank, out)

\* RedSVD::compute_U(given, rank)
compute_U ==
    /\ object = "RedSVD"
    /\ last.status = "ok"
    /\ \E rank \in 1..MaxRank :
         \E out \in {RedSVD_compute_U(Self, given, rank, randState)} :
           Returned("compute_U", given, rank, out)

\* RedSVD::compute_singularValues(given, rank)
compute_singularValues ==
    /\ object = "RedSVD"
    /\ last.status = "ok"
    /\ \E rank \in 1..MaxRank :
         \E out \in {RedSVD_compute_singularValues(Self, given, rank, randState)} :
           Returned("compute_singularValues", given, rank, out)

\* a matrix with no row or no column
EmptyInputs ==
    {IntMatrix(0, 0, <<>>), IntMatrix(0, MaxDim, <<>>),
     IntMatrix(MaxDim, 0, [i \in 1..MaxDim |-> <<>>])}

\* RedSymEigen::compute(A, rank), A the given matrix or an empty one
eigen_compute ==
    /\ object = "RedSymEigen"
    /\ last.status = "ok"
    /\ \E A \in {given} \cup EmptyInputs, rank \in 1..MaxRank :
         \E out \in {RedSymEigen_compute(Self, A, rank, randState)} :
           Returned("compute", A, rank, out)

\* no call of sample_gaussian or gram_schmidt is being stepped
SGIdle ==
    /\ sgMat = Uninitialized(0, 0)
    /\ sgI = 1
    /\ sgJ = 1
    /\ sgDraws = <<>>
    /\ sgPc = "idle"

GSIdle ==
    /\ gsIn = IntMatrix(0, 0, <<>>)
    /\ gsMat = IntMatrix(0, 0, <<>>)
    /\ gsI = 1
    /\ gsPc = "idle"

\* The caller holds one matrix with at least one row and one column (a
\* square one for RedSymEigen), and std::rand is in any state.
Init ==
    /\ randState \in 0..RAND_MAX
    /\ \E class \in {"RedSVD", "RedSymEigen"} :
         /\ Constructed(class)
         /\ \E m \in 1..MaxDim, n \in 1..MaxDim, k \in Kinds :
              /\ class = "RedSymEigen" => m = n
              /\ given = Input(k, m, n)
    /\ SGIdle
    /\ GSIdle

Next ==
    \/ (compute /\ UNCHANGED <<sgVars, gsVars>>)
    \/ (compute_V /\ UNCHANGED <<sgVars, gsVars>>)
    \/ (compute_U /\ UNCHANGED <<sgVars, gsVars>>)
    \/ (compute_singularValues /\ UNCHANGED <<sgVars, gsVars>>)
    \/ (eigen_compute /\ UNCHANGED <<sgVars, gsVars>>)

Spec == Init /\ [][Next]_vars

-----------------------------------------------------------------------------
(* Properties of the engines *)

\* A has no row or no column
IsEmptyMatrix(A) == A.rows = 0 \/ A.cols = 0

\* min(rank, m, n) for the last call
MinRankDims == Min(last.rank, Min(last.A.rows, last.A.cols))

\* what the last compute_svd returned gives for U, S and V
LatestU == MulTerm(frame.Z, frame.svdOfC.matrixU)

LatestS == frame.svdOfC.singularValues

LatestV == MulTerm(frame.Y, frame.svdOfC.matrixV)

\* C1: every call of RedSVD::compute, compute_U, compute_V and of
\* RedSymEigen::compute that builds a sketch uses r = min(rank, m, n) as the
\* column count of every Gaussian matrix (O, P) and of every sketch it builds
\* (Y, B, Z), and r exceeds neither m nor n.
C1_EffectiveRank ==
    frame.kind \in {"svd", "eigen"} =>
        /\ frame.r = MinRankDims
        /\ frame.r <= last.A.rows
        /\ frame.r <= last.A.cols
        /\ frame.O.rows = last.A.rows
        /\ frame.O.cols = frame.r
        /\ frame.Y0.cols = frame.r
        /\ frame.Y.cols = frame.r
        /\ frame.kind = "svd" =>
             /\ frame.B.cols = frame.r
             /\ frame.P.cols = frame.r
             /\ frame.Z0.cols = frame.r
             /\ frame.Z.cols = frame.r
        /\ frame.kind = "eigen" =>
             /\ frame.B.rows = frame.r
             /\ frame.B.cols = frame.r

\* a call whose requested rank was clamped
C1_Witness ==
    /\ frame.kind = "svd"
    /\ last.rank > last.A.rows
    /\ last.A.rows < last.A.cols
    /\ frame.O.cols = last.A.rows

\* C2 as stated: after RedSVD::compute, U is m x r', S has length r' and V
\* is n x r', r' the number of basis columns that survived the
\* orthonormalizations of Y and Z.
C2_DimsShrinkOnCollapse ==
    (object = "RedSVD" /\ last.op = "compute") =>
        LET surviving == Min(Survivors(frame.Y), Survivors(frame.Z))
        IN  /\ m_matrixU.rows = last.A.rows
            /\ m_matrixU.cols = surviving
            /\ m_vectorS.rows = surviving
            /\ m_matrixV.rows = last.A.cols
            /\ m_matrixV.cols = surviving

\* C2: after RedSVD::compute(A, rank) on an m x n matrix, U is m x r, S has
\* length r and V is n x r with r = min(rank, m, n), whether or not an
\* orthonormalization collapsed: a collapse leaves zero columns in Y or Z (both
\* keep r columns) and does not show in the dimensions of the result.
C2_DimsAreClampedRank ==
    (object = "RedSVD" /\ last.op = "compute") =>
        /\ m_matrixU.rows = last.A.rows
        /\ m_matrixU.cols = MinRankDims
        /\ m_vectorS.rows = MinRankDims
        /\ m_matrixV.rows = last.A.cols
        /\ m_matrixV.cols = MinRankDims
        /\ frame.Y.cols = MinRankDims
        /\ frame.Z.cols = MinRankDims

\* a compute whose Y collapsed at its second column
C2_Witness ==
    /\ object = "RedSVD"
    /\ last.op = "compute"
    /\ MinRankDims = 2
    /\ Survivors(frame.Y) = 1
    /\ m_matrixU.cols = 2
    /\ m_matrixV.cols = 2

\* C3 as stated: after a RedSVD call, U, S and V all come from that call.
C3_AllFromLastCall ==
    (object = "RedSVD" /\ frame.kind = "svd") =>
        /\ m_matrixU = LatestU
        /\ m_vectorS = LatestS
        /\ m_matrixV = LatestV

\* C3: a RedSVD call overwrites the factors it computes (S always, U for
\* compute and compute_U, V for compute and compute_V) with its own results;
\* the factor a partial variant skips keeps the value it had before the call
\* (empty, or the result of an earlier call).
C3_Overwrite ==
    [][(object = "RedSVD" /\ frame'.kind = "svd") =>
          /\ m_vectorS' = LatestS'
          /\ last'.op \in {"compute", "compute_U"} => m_matrixU' = LatestU'
          /\ last'.op \in {"compute", "compute_V"} => m_matrixV' = LatestV'
          /\ last'.op = "compute_U" => m_matrixV' = m_matrixV
          /\ last'.op = "compute_V" => m_matrixU' = m_matrixU]_vars

\* after compute_U, V is still the V of an earlier call
C3_Witness ==
    /\ object = "RedSVD"
    /\ last.op = "compute_U"
    /\ m_matrixV # Empty
    /\ m_matrixV # LatestV
    /\ m_matrixU = LatestU

\* C4 as stated: compute_U, compute_V and compute_singularValues can each be
\* called, and store for S (and for U, V where they compute it) what compute
\* stores from the same input, rank and state of std::rand.
C4_PartialVariantsMatchCompute ==
    (object = "RedSVD"
       /\ last.op \in {"compute_U", "compute_V", "compute_singularValues"}) =>
        With(RedSVD_compute(Self, last.A, last.rank, last.seed), LAMBDA full :
            /\ last.status = "ok"
            /\ m_vectorS = full.assign.m_vectorS
            /\ last.op = "compute_U" => m_matrixU = full.assign.m_matrixU
            /\ last.op = "compute_V" => m_matrixV = full.assign.m_matrixV)

\* C5 as stated: after RedSymEigen::compute on an empty matrix nothing was
\* drawn and eigenvalues() and eigenvectors() are empty.
C5_EmptyInputEmptiesResults ==
    (object = "RedSymEigen" /\ last.op = "compute" /\ IsEmptyMatrix(last.A)) =>
        /\ frame.kind = "returned_early"
        /\ last.draws = <<>>
        /\ m_eigenvalues = Empty
        /\ m_eigenvectors = Empty

\* C5: RedSymEigen::compute on a matrix with no row or no column returns at
\* once, draws nothing from std::rand, and leaves eigenvalues() and
\* eigenvectors() as they were before the call (empty only if no earlier call
\* stored a result).
C5_EmptyInputIsNoOp ==
    [][(object = "RedSymEigen" /\ last'.op = "compute" /\ IsEmptyMatrix(last'.A)) =>
          /\ frame'.kind = "returned_early"
          /\ last'.draws = <<>>
          /\ randState' = randState
          /\ m_eigenvalues' = m_eigenvalues
          /\ m_eigenvectors' = m_eigenvectors]_vars

\* an empty-input call after a call that stored results
C5_Witness ==
    /\ object = "RedSymEigen"
    /\ last.op = "compute"
    /\ IsEmptyMatrix(last.A)
    /\ frame.kind = "returned_early"
    /\ m_eigenvalues # Empty
    /\ m_eigenvectors # Empty

\* a freshly constructed instance
Fresh ==
    [m_matrixU |-> Empty, m_vectorS |-> Empty, m_matrixV |-> Empty,
     m_eigenvalues |-> Empty, m_eigenvectors |-> Empty]

\* the last call run again on a fresh instance, from the state std::rand had
Rerun ==
    IF object = "RedSVD"
    THEN RedSVD_compute(Fresh, last.A, last.rank, last.seed)
    ELSE RedSymEigen_compute(Fresh, last.A, last.rank, last.seed)

\* the instance holds, and std::rand gave, what the run out holds and got
SameRun(out) ==
    /\ last.draws = out.draws
    /\ randState = out.next
    /\ m_matrixU = Assigned(out, "m_matrixU", Empty)
    /\ m_vectorS = Assigned(out, "m_vectorS", Empty)
    /\ m_matrixV = Assigned(out, "m_matrixV", Empty)
    /\ m_eigenvalues = Assigned(out, "m_eigenvalues", Empty)
    /\ m_eigenvectors = Assigned(out, "m_eigenvectors", Empty)

AfterO == (last.seed + Len(frame.drawsO)) % (RAND_MAX + 1)

\* C10 as stated: both sketches are M^T * O with O of M.rows x r: Y from
\* M = A, and Z from M = B, of shape m x r, drawn after B was formed.
C10_SameRangeFinderTwice ==
    frame.kind = "svd" =>
        /\ frame.O.rows = last.A.rows
        /\ frame.O.cols = frame.r
        /\ frame.Y0 = Mul(Transpose(last.A), frame.O)
        /\ frame.B = Mul(last.A, frame.Y)
        /\ frame.P.rows = frame.B.rows
        /\ frame.P.cols = frame.r
        /\ frame.Z0 = Mul(Transpose(frame.B), frame.P)
        /\ frame.Z.rows = last.A.rows
        /\ frame.Z.cols = frame.r

\* C10: the first sketch draws O (m x r) and forms Y = A^T * O (n x r); after
\* B = A * Y (m x r) is formed from the orthonormalized Y, the second sketch
\* draws P of shape B.cols x r = r x r (not B.rows x r) from the state
\* std::rand was left in by O, and forms Z = B * P (m x r) with no transpose.
C10_TwoSketches ==
    frame.kind = "svd" =>
        /\ frame.O = sample_gaussian(Uninitialized(last.A.rows, frame.r), last.seed).mat
        /\ frame.Y0 = Mul(Transpose(last.A), frame.O)
        /\ frame.Y0.rows = last.A.cols
        /\ frame.Y0.cols = frame.r
        /\ frame.Y = gram_schmidt(frame.Y0)
        /\ frame.B = Mul(last.A, frame.Y)
        /\ frame.B.rows = last.A.rows
        /\ frame.B.cols = frame.r
        /\ frame.P.rows = frame.r
        /\ frame.P.cols = frame.r
        /\ frame.P = sample_gaussian(Uninitialized(frame.B.cols, frame.r), AfterO).mat
        /\ last.draws = frame.drawsO \o frame.drawsP
        /\ frame.Z0 = Mul(frame.B, frame.P)
        /\ frame.Z = gram_schmidt(frame.Z0)
        /\ frame.Z.rows = last.A.rows
        /\ frame.Z.cols = frame.r

\* a second sketch of a B with more rows than columns
C10_Witness ==
    /\ frame.kind = "svd"
    /\ frame.B.rows = 2
    /\ frame.B.cols = 1
    /\ frame.P.rows = 1
    /\ frame.Z0.rows = 2
    /\ Len(frame.drawsP) = 2

-----------------------------------------------------------------------------
(* sample_gaussian(mat), one sample_gaussian(x, y) call per step *)

SgRows == 2

SgCols == 3

\* sample_gaussian(mat) is entered with a rows x cols matrix
SGCall ==
    /\ sgPc = "idle"
    /\ \E rows \in 0..SgRows, cols \in 0..SgCols :
         sgMat' = Uninitialized(rows, cols)
    /\ sgI' = 1
    /\ sgJ' = 1
    /\ sgDraws' = <<>>
    /\ sgPc' = "loop"
    /\ UNCHANGED randState

\* line 63: sample_gaussian(mat(i, j), mat(i, j+1))
SGPair ==
    /\ sgPc = "loop"
    /\ sgI <= sgMat.rows
    /\ sgJ + 1 <= sgMat.cols
    /\ \E p \in {sample_gaussian_xy(sgMat, sgI, sgJ, sgJ + 1, randState)} :
         /\ sgMat' = p.mat
         /\ randState' = p.next
         /\ sgDraws' = sgDraws \o p.draws
    /\ sgJ' = sgJ + 2
    /\ UNCHANGED <<sgI, sgPc>>

\* lines 64-65, the column count odd: the last column of row i, then ++i
SGLast ==
    /\ sgPc = "loop"
    /\ sgI <= sgMat.rows
    /\ sgJ + 1 > sgMat.cols
    /\ sgMat.cols % 2 = 1
    /\ \E p \in {sample_gaussian_xy(sgMat, sgI, sgMat.cols, sgMat.cols, randState)} :
         /\ sgMat' = p.mat
         /\ randState' = p.next
         /\ sgDraws' = sgDraws \o p.draws
    /\ sgI' = sgI + 1
    /\ sgJ' = 1
    /\ UNCHANGED sgPc

\* line 64, the column count even: ++i
SGRowEnd ==
    /\ sgPc = "loop"
    /\ sgI <= sgMat.rows
    /\ sgJ + 1 > sgMat.cols
    /\ sgMat.cols % 2 = 0
    /\ sgI' = sgI + 1
    /\ sgJ' = 1
    /\ UNCHANGED <<randState, sgMat, sgDraws, sgPc>>

\* line 60: i < mat.rows() fails; line 67
SGReturn ==
    /\ sgPc = "loop"
    /\ sgI > sgMat.rows
    /\ sgPc' = "done"
    /\ UNCHANGED <<randState, sgMat, sgI, sgJ, sgDraws>>

InitSG ==
    /\ randState \in 0..RAND_MAX
    /\ Constructed("RedSVD")
    /\ given = IntMatrix(0, 0, <<>>)
    /\ SGIdle
    /\ GSIdle

NextSG ==
    \/ (SGCall /\ UNCHANGED <<objVars, gsVars>>)
    \/ (SGPair /\ UNCHANGED <<objVars, gsVars>>)
    \/ (SGLast /\ UNCHANGED <<objVars, gsVars>>)
    \/ (SGRowEnd /\ UNCHANGED <<objVars, gsVars>>)
    \/ (SGReturn /\ UNCHANGED <<objVars, gsVars>>)

SpecSG == InitSG /\ [][NextSG]_vars

-----------------------------------------------------------------------------
(* Properties of sample_gaussian *)

\* the sample_gaussian(x, y) calls one row takes
PairsPerRow == (sgMat.cols + 1) \div 2

\* the samples of the p-th sample_gaussian(x, y) call of row i
PairAt(i, p) ==
    LET b == 2 * ((i - 1) * PairsPerRow + (p - 1)) + 1
    IN  BoxMuller(sgDraws[b] + 1, sgDraws[b + 1] + 1)

\* columns 2p-1 and 2p of every row hold x and y of the row's p-th call
PairsFilled ==
    /\ Len(sgDraws) = 2 * sgMat.rows * PairsPerRow
    /\ \A i \in 1..sgMat.rows : \A p \in 1..(sgMat.cols \div 2) :
         /\ sgMat.e[i][2 * p - 1] = PairAt(i, p).x
         /\ sgMat.e[i][2 * p] = PairAt(i, p).y

\* C8 as stated: with an odd column count the last column of each row holds
\* x of the row's extra call.
C8_LastColumnHoldsX ==
    sgPc = "done" =>
        /\ PairsFilled
        /\ sgMat.cols % 2 = 1 =>
             \A i \in 1..sgMat.rows : sgMat.e[i][sgMat.cols] = PairAt(i, PairsPerRow).x

\* C8: sample_gaussian(mat) fills each row two columns at a time from one
\* sampling pair (x into column j, y into column j+1); with an odd column
\* count the last column of each row gets one extra pair, both of whose
\* values are written to it, x first and then y: it holds the second value
\* y = len * sin(2 pi v2), and x is the one discarded.
C8_LastColumnHoldsY ==
    sgPc = "done" =>
        /\ PairsFilled
        /\ sgMat.cols % 2 = 1 =>
             \A i \in 1..sgMat.rows : sgMat.e[i][sgMat.cols] = PairAt(i, PairsPerRow).y

\* a filled matrix of three columns whose extra pair has x # y
C8_Witness ==
    /\ sgPc = "done"
    /\ sgMat.rows >= 1
    /\ sgMat.cols = 3
    /\ PairAt(1, 2).x # PairAt(1, 2).y
    /\ sgMat.e[1][3] = PairAt(1, 2).y

-----------------------------------------------------------------------------
(* gram_schmidt, one outer-loop pass per step *)

GsRows == 3

GsCols == 3

\* the units of the entries gram_schmidt is given: 1, EPS and EPS / 2, so
\* that columns of norm above, at and below EPS occur
GsUnits == {One, Scale(1, EPS_INV, 1), Scale(1, 2 * EPS_INV, 1)}

\* gram_schmidt(mat) is entered, mat any matrix of 0/1 entries in one unit
GSCall ==
    /\ gsPc = "idle"
    /\ \E rows \in {0, GsRows}, cols \in 1..GsCols, u \in GsUnits :
         \E e \in [1..rows -> [1..cols -> {0, 1}]] :
           LET mat == DenseMatrix(rows, cols, e, [i \in 1..rows |-> One],
                                  [j \in 1..cols |-> u])
           IN  /\ gsIn' = mat
               /\ gsMat' = ColumnForm(mat)
    /\ gsI' = 1
    /\ gsPc' = "loop"

\* lines 77-94: the loop body for column gsI
GSStep ==
    /\ gsPc = "loop"
    /\ gsI <= gsMat.cols
    /\ \E s \in {GSColumn(gsMat, gsI)} :
         /\ gsMat' = s.mat
         /\ IF s.returned
            THEN gsPc' = "done" /\ gsI' = gsI
            ELSE gsPc' = "loop" /\ gsI' = gsI + 1
    /\ UNCHANGED gsIn

\* line 77: i < mat.cols() fails; line 95
GSExit ==
    /\ gsPc = "loop"
    /\ gsI > gsMat.cols
    /\ gsPc' = "done"
    /\ UNCHANGED <<gsIn, gsMat, gsI>>

InitGS ==
    /\ randState = 0
    /\ Constructed("RedSVD")
    /\ given = IntMatrix(0, 0, <<>>)
    /\ SGIdle
    /\ GSIdle

NextGS ==
    \/ (GSCall /\ UNCHANGED <<objVars, randState, sgVars>>)
    \/ (GSStep /\ UNCHANGED <<objVars, randState, sgVars>>)
    \/ (GSExit /\ UNCHANGED <<objVars, randState, sgVars>>)

SpecGS == InitGS /\ [][NextGS]_vars

-----------------------------------------------------------------------------
(* Properties of gram_schmidt *)

\* column j of mat has norm 1: (w.w) n^2 = d^2 rad
UnitNorm(mat, j) ==
    Dot(Col(mat, j), Col(mat, j), mat.rows) * mat.cs[j].n * mat.cs[j].n
        = mat.cs[j].d * mat.cs[j].d * mat.cs[j].rad

Orthogonal(mat, i, j) == Dot(Col(mat, i), Col(mat, j), mat.rows) = 0

\* the columns left of k are normalized and mutually orthogonal
OrthonormalBefore(mat, k) ==
    /\ \A j \in 1..(k - 1) : UnitNorm(mat, j)
    /\ \A i, j \in 1..(k - 1) : i < j => Orthogonal(mat, i, j)

\* the columns from k on are zero
ZeroFrom(mat, k) == \A j \in k..mat.cols : ZeroCol(mat, j)

SameColumn(mat, i, new, j) ==
    /\ Col(mat, i) = Col(new, j)
    /\ mat.cs[i] = new.cs[j]

\* the columns of the input that repeat a column left of them
Repeats == {j \in 1..gsIn.cols : \E i \in 1..(j - 1) : SameColumn(gsIn, i, gsIn, j)}

\* the second occurrence: the leftmost column that repeats one
SecondOccurrence == CHOOSE j \in Repeats : \A k \in Repeats : j <= k

C9_AtReturn ==
    gsPc = "done" =>
        /\ gsI \in 1..(gsMat.cols + 1)
        /\ \A j \in 1..(gsI - 1) : UnitNorm(gsMat, j)
        /\ ZeroFrom(gsMat, gsI)

\* in the loop i is at most one past the last column: with i growing by one
\* per pass (C9_Pass), the loop is left after at most cols + 1 passes
C9_InLoop == gsPc = "loop" => gsI \in 1..(gsMat.cols + 1)

\* one pass: the columns left of i stay; either column i is normalized, the
\* columns right of it stay and i moves on by one, or the columns from i on
\* are zero and the loop is left
C9_Pass ==
    gsPc = "loop" =>
        /\ gsMat'.cols = gsMat.cols
        /\ \A j \in 1..(gsI - 1) : j <= gsMat.cols => SameColumn(gsMat, j, gsMat', j)
        /\ \/ /\ gsPc' = "loop"
              /\ gsI' = gsI + 1
              /\ UnitNorm(gsMat', gsI)
              /\ \A j \in (gsI + 1)..gsMat.cols : SameColumn(gsMat, j, gsMat', j)
           \/ /\ gsPc' = "done"
              /\ gsI' = gsI
              /\ ZeroFrom(gsMat', gsI)

\* C9: gram_schmidt processes the columns left to right, one per pass, and a
\* pass never changes a column left of the one it processes; the first pass
\* that finds its column below the threshold after projection zeroes that
\* column and every column right of it and leaves the loop; every call
\* returns (after at most cols + 1 passes), and at return the columns left of
\* some index k are normalized and the columns from k on are zero.
C9_LeftToRight ==
    /\ []C9_AtReturn
    /\ []C9_InLoop
    /\ [][C9_Pass]_vars

\* a return by collapse at the second of three columns
C9_Witness ==
    /\ gsPc = "done"
    /\ gsMat.cols = 3
    /\ gsI = 2
    /\ UnitNorm(gsMat, 1)
    /\ ~ZeroCol(gsIn, 2)
    /\ ~ZeroCol(gsIn, 3)
    /\ ZeroFrom(gsMat, 2)

====
